---- MODULE Spec2Model ----
(***************************************************************************)
(* Boolean retrieval engine: index builder (index.py) and query parser,    *)
(* skip-list merge engine and postfix evaluator (search.py).               *)
(*                                                                         *)
(* Python lists are sequences; Python indices are 0-based, so list[i] is   *)
(* written At(list, i).  A raised exception is a record field `err` that   *)
(* names the exception.                                                    *)
(***************************************************************************)
EXTENDS Integers, Sequences, FiniteSets, TLC

VARIABLES
    \* ---- skip-list merge engine, one call (search.py 132-244)
    in_1, in_2,          \* the two operands, QueryResult(doc_Ids, skip_len)
    merge_op,            \* "none" before the call, else the function called
    merge_res,           \* the QueryResult returned
    \* ---- index builder and postings store (index.py)
    listing,             \* os.listdir(in_dir): the file names, in any order
    files,               \* get_sorted_file_names(in_dir)
    doc_idx,             \* number of documents of `files` already processed
    postings_lists,      \* the dict { word : [docID, ...] }, insertion ordered
    seen,                \* history: docID -> set of terms the document yielded
    dictionary,          \* { word : (num_docs, offset, size, skip_len) }
    postings_fo,         \* the postings file, a sequence of characters
    read_word, read_res, \* last read_postings_list_from_disk call and its result
    ipc,                 \* position of the build: "start","index","write","built"
    \* ---- query parser (search.py 16-62)
    tokens,              \* nltk.word_tokenize(query)
    tpos,                \* number of tokens consumed
    output_queue, operator_stack,
    ppc,                 \* "scan", "done" or the exception raised
    \* ---- query evaluator (search.py 247-287)
    query,               \* the postfix sequence
    qi,                  \* the loop index i
    stack,
    query_res,           \* the local query_res; <<>> while unbound, else <<QueryResult>>
    origin,              \* history: for each stack entry, the function that built it
    res_origin,          \* history: the function that built query_res
    epc,                 \* "scan", "done" or the exception raised
    search_results,      \* the list returned
    \* ---- batch driver (search.py 290-319)
    lines,               \* the query file, one token sequence per line
    line_num,
    results_fo,          \* the result file, one sequence of docIDs per line written
    bpc                  \* "loop", "closed" or the exception that ended the run

mergeVars == <<in_1, in_2, merge_op, merge_res>>
buildVars == <<listing, files, doc_idx, postings_lists, seen, read_word, read_res, ipc>>
storeVars == <<dictionary, postings_fo>>
parseVars == <<tokens, tpos, output_queue, operator_stack, ppc>>
evalVars  == <<query, qi, stack, query_res, origin, res_origin, epc, search_results>>
batchVars == <<lines, line_num, results_fo, bpc>>
vars == <<mergeVars, buildVars, storeVars, parseVars, evalVars, batchVars>>

----------------------------------------------------------------------------
(* Bounds of the model *)

\* document IDs of the merge engine's operands are drawn from 1..MaxDoc
MaxDoc == 4
\* skip strides of the merge engine's operands are drawn from 0..MaxSkip
MaxSkip == 5
\* at most MaxFiles documents in the directory indexed
MaxFiles == 3
\* a document yields at most MaxTokens word tokens
MaxTokens == 2
\* the well-formed queries parsed have at most MaxQueryLen tokens
MaxQueryLen == 7
\* the well-formed queries evaluated have at most MaxEvalLen tokens
MaxEvalLen == 5
\* the query file has at most MaxLines lines
MaxLines == 2

----------------------------------------------------------------------------
(* Python built-ins *)

At(list, idx) == list[idx + 1]

\* list[idx:]
Slice(list, idx) == SubSeq(list, idx + 1, Len(list))

\* int(math.sqrt(n))
isqrt(n) == CHOOSE r \in 0..n : r * r <= n /\ (r + 1) * (r + 1) > n

Range(s) == {s[k] : k \in 1..Len(s)}

Min(S) == CHOOSE x \in S : \A y \in S : x <= y

\* the ascending duplicate-free sequence of a finite set of integers
RECURSIVE SetToSeq(_)
SetToSeq(S) == IF S = {} THEN <<>> ELSE <<Min(S)>> \o SetToSeq(S \ {Min(S)})

StrictlyAscending(s) == \A k \in 1..(Len(s) - 1) : s[k] < s[k + 1]

----------------------------------------------------------------------------
(* Skip-list merge engine *)

QueryResult(doc_Ids, skip_len) == [doc_Ids |-> doc_Ids, skip_len |-> skip_len]

has_skip(idx, skip_len, total_len) ==
    IF skip_len = 0 THEN FALSE
    ELSE idx % skip_len = 0 /\ (idx + skip_len) < total_len

\* the inner while loop: `while has_skip(j, ...) and list[j + skip] <= bound: j += skip`
RECURSIVE SkipWhile(_, _, _, _)
SkipWhile(list, skip_len, idx, bound) ==
    IF has_skip(idx, skip_len, Len(list)) /\ At(list, idx + skip_len) <= bound
    THEN SkipWhile(list, skip_len, idx + skip_len, bound)
    ELSE idx

\* mutant: the skip is taken without comparing the skip target with the bound
AdvanceNoBoundCheck(list, skip_len, idx, bound) ==
    IF has_skip(idx, skip_len, Len(list))
    THEN idx + skip_len
    ELSE idx + 1

\* advance of the pointer on the smaller value: repeated skips, or one step
Advance(list, skip_len, idx, bound) ==
    IF has_skip(idx, skip_len, Len(list)) /\ At(list, idx + skip_len) <= bound
    THEN SkipWhile(list, skip_len, idx + skip_len, bound)
    ELSE idx + 1

RECURSIVE AndNotLoop(_, _, _, _, _, _)
AndNotLoop(list_1, list_2, skip_2, i, j, results) ==
    IF i < Len(list_1) /\ j < Len(list_2)
    THEN IF At(list_1, i) < At(list_2, j)
         THEN AndNotLoop(list_1, list_2, skip_2, i + 1, j, Append(results, At(list_1, i)))
         ELSE IF At(list_1, i) = At(list_2, j)
         THEN AndNotLoop(list_1, list_2, skip_2, i + 1, j + 1, results)
         ELSE AndNotLoop(list_1, list_2, skip_2, i,
                         Advance(list_2, skip_2, j, At(list_1, i)), results)
    ELSE IF i < Len(list_1) THEN results \o Slice(list_1, i) ELSE results

perform_and_not_query(operand_1, operand_2) ==
    LET results == AndNotLoop(operand_1.doc_Ids, operand_2.doc_Ids,
                              operand_2.skip_len, 0, 0, <<>>)
    IN  QueryResult(results, isqrt(Len(results)))

RECURSIVE AndLoop(_, _, _, _, _, _, _)
AndLoop(list_1, skip_1, list_2, skip_2, i, j, results) ==
    IF i < Len(list_1) /\ j < Len(list_2)
    THEN IF At(list_1, i) = At(list_2, j)
         THEN AndLoop(list_1, skip_1, list_2, skip_2, i + 1, j + 1,
                      Append(results, At(list_1, i)))
         ELSE IF At(list_1, i) < At(list_2, j)
         THEN AndLoop(list_1, skip_1, list_2, skip_2,
                      Advance(list_1, skip_1, i, At(list_2, j)), j, results)
         ELSE AndLoop(list_1, skip_1, list_2, skip_2, i,
                      Advance(list_2, skip_2, j, At(list_1, i)), results)
    ELSE results

perform_and_query(operand_1, operand_2) ==
    LET results == AndLoop(operand_1.doc_Ids, operand_1.skip_len,
                           operand_2.doc_Ids, operand_2.skip_len, 0, 0, <<>>)
    IN  QueryResult(results, isqrt(Len(results)))

RECURSIVE OrLoop(_, _, _, _, _)
OrLoop(list_1, list_2, i, j, results) ==
    IF i < Len(list_1) /\ j < Len(list_2)
    THEN IF At(list_1, i) < At(list_2, j)
         THEN OrLoop(list_1, list_2, i + 1, j, Append(results, At(list_1, i)))
         ELSE IF At(list_2, j) < At(list_1, i)
         THEN OrLoop(list_1, list_2, i, j + 1, Append(results, At(list_2, j)))
         ELSE OrLoop(list_1, list_2, i + 1, j + 1, Append(results, At(list_1, i)))
    ELSE (results \o (IF i < Len(list_1) THEN Slice(list_1, i) ELSE <<>>))
                  \o (IF j < Len(list_2) THEN Slice(list_2, j) ELSE <<>>)

perform_or_query(operand_1, operand_2) ==
    LET list_1 == operand_1.doc_Ids
        list_2 == operand_2.doc_Ids
    IN  IF Len(list_1) = 0 \/ Len(list_2) = 0
        THEN IF Len(list_1) > 0 THEN QueryResult(list_1, 0)
                                ELSE QueryResult(list_2, 0)
        ELSE LET results == OrLoop(list_1, list_2, 0, 0, <<>>)
             IN  QueryResult(results, isqrt(Len(results)))

----------------------------------------------------------------------------
(* Text conversions used by the postings store *)

Digits == <<"0", "1", "2", "3", "4", "5", "6", "7", "8", "9">>

\* str(docID), as the sequence of its characters
RECURSIVE Str(_)
Str(n) == IF n < 10 THEN <<Digits[n + 1]>>
          ELSE Str(n \div 10) \o <<Digits[(n % 10) + 1]>>

DigitValue(c) == (CHOOSE d \in 1..10 : Digits[d] = c) - 1

\* int(s) raises ValueError unless s is a non-empty run of decimal digits
IsInt(s) == Len(s) > 0 /\ \A k \in 1..Len(s) : s[k] \in Range(Digits)

RECURSIVE ParseInt(_)
ParseInt(s) == IF Len(s) = 1 THEN DigitValue(s[1])
               ELSE 10 * ParseInt(SubSeq(s, 1, Len(s) - 1)) + DigitValue(s[Len(s)])

\* ','.join(strs)
RECURSIVE Join(_)
Join(strs) == IF Len(strs) = 0 THEN <<>>
              ELSE IF Len(strs) = 1 THEN strs[1]
              ELSE (strs[1] \o <<",">>) \o Join(Tail(strs))

\* s.split(','): the pieces between the separators; "" splits to [""]
RECURSIVE SplitLoop(_, _, _)
SplitLoop(s, cur, acc) ==
    IF Len(s) = 0 THEN Append(acc, cur)
    ELSE IF Head(s) = "," THEN SplitLoop(Tail(s), <<>>, Append(acc, cur))
    ELSE SplitLoop(Tail(s), Append(cur, Head(s)), acc)

Split(s) == SplitLoop(s, <<>>, <<>>)

\* stemmer.stem(token).lower() on the tokens of the model: case folding
\* (the Porter stemmer leaves one-letter tokens as they are)
Normalize(token) ==
    CASE token = "A" -> "a"
      [] token = "B" -> "b"
      [] OTHER -> token

----------------------------------------------------------------------------
(* Index builder *)

ALL_DOC_IDS == "## all doc IDs ##"

\* the dict postings_lists: Python dicts keep insertion order
EmptyDict == [order |-> <<>>, lists |-> <<>>]
Has(pl, word) == word \in Range(pl.order)
Put(pl, word, list) ==
    [order |-> IF Has(pl, word) THEN pl.order ELSE Append(pl.order, word),
     lists |-> IF Has(pl, word) THEN [pl.lists EXCEPT ![word] = list]
               ELSE pl.lists @@ (word :> list)]

\* insertion of x into an ascending sequence
RECURSIVE InsertAscending(_, _)
InsertAscending(s, x) ==
    IF Len(s) = 0 \/ x <= Head(s) THEN <<x>> \o s
    ELSE <<Head(s)>> \o InsertAscending(Tail(s), x)

\* files.sort()
RECURSIVE SortAscending(_)
SortAscending(s) ==
    IF Len(s) = 0 THEN <<>> ELSE InsertAscending(SortAscending(Tail(s)), Head(s))

\* in_dir is os.listdir(in_dir), the names of the files
get_sorted_file_names(in_dir) ==
    SortAscending([k \in 1..Len(in_dir) |-> ParseInt(in_dir[k])])

\* mutant: the document ID is appended for every occurrence of the term
AddPostingNoDedup(pl, word_token, docID) ==
    LET stemmed_word_token == Normalize(word_token)
        pl1 == IF Has(pl, stemmed_word_token) THEN pl ELSE Put(pl, stemmed_word_token, <<>>)
    IN  Put(pl1, stemmed_word_token, Append(pl1.lists[stemmed_word_token], docID))

\* lines 54-62: one word token of document docID
AddPosting(pl, word_token, docID) ==
    LET stemmed_word_token == Normalize(word_token)
        pl1 == IF Has(pl, stemmed_word_token) THEN pl ELSE Put(pl, stemmed_word_token, <<>>)
        postings == pl1.lists[stemmed_word_token]
    IN  IF Len(postings) = 0 \/ postings[Len(postings)] # docID
        THEN Put(pl1, stemmed_word_token, Append(postings, docID))
        ELSE pl1

RECURSIVE AddPostings(_, _, _)
AddPostings(pl, word_tokens, docID) ==
    IF Len(word_tokens) = 0 THEN pl
    ELSE AddPostings(AddPosting(pl, Head(word_tokens), docID), Tail(word_tokens), docID)

\* lines 42-65: the body of `for docID in files`, for a document of these tokens
IndexOneDocument(pl, docID, word_tokens) ==
    AddPostings(Put(pl, ALL_DOC_IDS, Append(pl.lists[ALL_DOC_IDS], docID)),
                word_tokens, docID)

----------------------------------------------------------------------------
(* Postings store *)

\* the string write_postings_list writes; its length is the size returned
write_postings_list(postings_list) ==
    Join([k \in 1..Len(postings_list) |-> Str(postings_list[k])]) \o <<" ">>

\* mutant: the stride recorded is the length of the list, not its square root
RECURSIVE WriteLoopStrideIsLength(_, _, _, _, _)
WriteLoopStrideIsLength(pl, k, offset, dict, f) ==
    IF k > Len(pl.order) THEN [dictionary |-> dict, postings |-> f]
    ELSE LET word == pl.order[k]
             num_docs == Len(pl.lists[word])
             skip_len == num_docs
             postings_list_str == write_postings_list(pl.lists[word])
             size_bytes == Len(postings_list_str)
         IN  WriteLoopStrideIsLength(pl, k + 1, offset + size_bytes,
                       dict @@ (word :> <<num_docs, offset, size_bytes, skip_len>>),
                       f \o postings_list_str)

\* lines 99-107: `for word in postings_lists`, from the k-th word on
RECURSIVE WriteLoop(_, _, _, _, _)
WriteLoop(pl, k, offset, dict, f) ==
    IF k > Len(pl.order) THEN [dictionary |-> dict, postings |-> f]
    ELSE LET word == pl.order[k]
             num_docs == Len(pl.lists[word])
             skip_len == isqrt(num_docs)
             postings_list_str == write_postings_list(pl.lists[word])
             size_bytes == Len(postings_list_str)
         IN  WriteLoop(pl, k + 1, offset + size_bytes,
                       dict @@ (word :> <<num_docs, offset, size_bytes, skip_len>>),
                       f \o postings_list_str)

write_index_to_disk(pl) == WriteLoop(pl, 1, 0, <<>>, <<>>)

\* postings_fo.seek(offset, 0); postings_fo.read(size): at most `size` characters
ReadAt(f, offset, size) ==
    SubSeq(f, offset + 1, IF offset + size <= Len(f) THEN offset + size ELSE Len(f))

\* the result is [err, postings]: err names the exception raised, "" when none
read_postings_list_from_disk(word, dict, f) ==
    LET offset == dict[word][2]
        size == dict[word][3]
        postings == ReadAt(f, offset, size)
        pieces == Split(SubSeq(postings, 1, Len(postings) - 1))
    IN  IF \A k \in 1..Len(pieces) : IsInt(pieces[k])
        THEN [err |-> "", postings |-> [k \in 1..Len(pieces) |-> ParseInt(pieces[k])]]
        ELSE [err |-> "ValueError", postings |-> <<>>]

\* the result is [err, res]; an operand here is a term, never a QueryResult
\* (a QueryResult operand is returned as it is, line 91-92)
get_query_result(operand, dict, f) ==
    IF operand \notin DOMAIN dict
    THEN [err |-> "", res |-> QueryResult(<<>>, 0)]
    ELSE LET r == read_postings_list_from_disk(operand, dict, f)
         IN  IF r.err # "" THEN [err |-> r.err, res |-> QueryResult(<<>>, 0)]
             ELSE [err |-> "", res |-> QueryResult(r.postings, dict[operand][4])]

\* operand is a QueryResult taken from the stack
perform_not_query(operand, dict, f) ==
    LET all_docs_res == get_query_result(ALL_DOC_IDS, dict, f)
    IN  IF all_docs_res.err # "" THEN all_docs_res
        ELSE [err |-> "", res |-> perform_and_not_query(all_docs_res.res, operand)]

----------------------------------------------------------------------------
(* Query parser: shunting_yard *)

\* operator_stack[-1]
Top(stk) == stk[Len(stk)]
\* the list after operator_stack.pop()
Pop(stk) == SubSeq(stk, 1, Len(stk) - 1)

\* mutant: AND leaves a NOT on top of the operator stack where it is
PoppedByAndNothing == {}
\* line 43: the operators an AND moves to the output
PoppedByAnd == {"NOT"}

\* mutant: OR does not move an AND to the output
PoppedByOrOnlyNot == {"NOT"}
\* lines 49-50: the operators an OR moves to the output
PoppedByOr == {"NOT", "AND"}

\* `while len(operator_stack) > 0 and operator_stack[-1] in ops:
\*      output_queue.append(operator_stack.pop())`
RECURSIVE PopWhile(_, _)
PopWhile(st, ops) ==
    IF Len(st.operator_stack) > 0 /\ Top(st.operator_stack) \in ops
    THEN PopWhile([st EXCEPT !.output_queue = Append(@, Top(st.operator_stack)),
                             !.operator_stack = Pop(@)], ops)
    ELSE st

\* line 34: the while loop of ')' moves every operator that is not '('
\* (the operator stack holds only '(', NOT, AND and OR)
NotLParen == {"NOT", "AND", "OR"}

ShuntInit == [output_queue |-> <<>>, operator_stack |-> <<>>, err |-> ""]

\* lines 28-57: the body of `for token in tokens`
ShuntToken(st, token) ==
    CASE token = "(" -> [st EXCEPT !.operator_stack = Append(@, token)]
      [] token = ")" ->
            LET s1 == PopWhile(st, NotLParen)
            IN  IF Len(s1.operator_stack) = 0
                THEN [s1 EXCEPT !.err = "IndexError"]
                ELSE [s1 EXCEPT !.operator_stack = Pop(@)]
      [] token = "NOT" -> [st EXCEPT !.operator_stack = Append(@, token)]
      [] token = "AND" ->
            [PopWhile(st, PoppedByAnd) EXCEPT !.operator_stack = Append(@, token)]
      [] token = "OR" ->
            [PopWhile(st, PoppedByOr) EXCEPT !.operator_stack = Append(@, token)]
      [] OTHER -> [st EXCEPT !.output_queue = Append(@, Normalize(token))]

\* lines 59-60: the operator stack is emptied onto the output, top first
RECURSIVE ShuntFlush(_)
ShuntFlush(st) ==
    IF Len(st.operator_stack) > 0
    THEN ShuntFlush([st EXCEPT !.output_queue = Append(@, Top(st.operator_stack)),
                               !.operator_stack = Pop(@)])
    ELSE st

RECURSIVE ShuntLoop(_, _)
ShuntLoop(st, toks) ==
    IF st.err # "" \/ Len(toks) = 0 THEN st
    ELSE ShuntLoop(ShuntToken(st, Head(toks)), Tail(toks))

\* the result is [err, output_queue, operator_stack]; toks is nltk.word_tokenize(query)
shunting_yard(toks) ==
    LET st == ShuntLoop(ShuntInit, toks)
    IN  IF st.err # "" THEN st ELSE ShuntFlush(st)

----------------------------------------------------------------------------
(* Query evaluator: perform_search_query *)

\* the locals at the head of the while loop; query_res is <<>> while unbound.
\* origin and res_origin are history: the function that built each QueryResult
EvalInit == [i |-> 0, stack |-> <<>>, query_res |-> <<>>,
             origin |-> <<>>, res_origin |-> "", err |-> ""]

\* line 280-281: stack.append(query_res); i += 1
PushResult(st) ==
    IF Len(st.query_res) = 0 THEN [st EXCEPT !.err = "UnboundLocalError"]
    ELSE [st EXCEPT !.stack = Append(@, st.query_res[1]),
                    !.origin = Append(@, st.res_origin),
                    !.i = @ + 1]

\* operand_2 = stack.pop(); operand_1 = stack.pop(); query_res = fn(operand_1, operand_2)
Binary(st, res, tag) ==
    [st EXCEPT !.stack = Pop(Pop(@)), !.origin = Pop(Pop(@)),
               !.query_res = <<res>>, !.res_origin = tag]

OrTag(operand_1, operand_2) ==
    IF Len(operand_1.doc_Ids) = 0 \/ Len(operand_2.doc_Ids) = 0 THEN "or_short" ELSE "or"

\* lines 264-265, then 280-281: i += 1, and the append of the stale query_res
EvalNotNot(st) == PushResult([st EXCEPT !.i = @ + 1])

\* mutant: the operands of the fused AND NOT are taken in the order popped
EvalAndNotSwapped(st) ==
    IF Len(st.stack) < 2 THEN [st EXCEPT !.err = "IndexError"]
    ELSE LET operand_2 == Top(st.stack)
             operand_1 == Top(Pop(st.stack))
         IN  PushResult(Binary([st EXCEPT !.i = @ + 1],
                               perform_and_not_query(operand_2, operand_1), "and_not"))

\* lines 259-263, then 280-281: NOT followed by AND
EvalAndNot(st) ==
    IF Len(st.stack) < 2 THEN [st EXCEPT !.err = "IndexError"]
    ELSE LET operand_2 == Top(st.stack)
             operand_1 == Top(Pop(st.stack))
         IN  PushResult(Binary([st EXCEPT !.i = @ + 1],
                               perform_and_not_query(operand_1, operand_2), "and_not"))

\* lines 266-268: a NOT followed by neither AND nor NOT
EvalNot(st, dict, f) ==
    IF Len(st.stack) < 1 THEN [st EXCEPT !.err = "IndexError"]
    ELSE LET r == perform_not_query(Top(st.stack), dict, f)
         IN  IF r.err # "" THEN [st EXCEPT !.err = r.err]
             ELSE PushResult([st EXCEPT !.stack = Pop(@), !.origin = Pop(@),
                                        !.query_res = <<r.res>>, !.res_origin = "not"])

\* lines 269-272
EvalAnd(st) ==
    IF Len(st.stack) < 2 THEN [st EXCEPT !.err = "IndexError"]
    ELSE LET operand_2 == Top(st.stack)
             operand_1 == Top(Pop(st.stack))
         IN  PushResult(Binary(st, perform_and_query(operand_1, operand_2), "and"))

\* lines 273-276
EvalOr(st) ==
    IF Len(st.stack) < 2 THEN [st EXCEPT !.err = "IndexError"]
    ELSE LET operand_2 == Top(st.stack)
             operand_1 == Top(Pop(st.stack))
         IN  PushResult(Binary(st, perform_or_query(operand_1, operand_2),
                               OrTag(operand_1, operand_2)))

\* lines 277-278
EvalTerm(st, token, dict, f) ==
    LET r == get_query_result(token, dict, f)
    IN  IF r.err # "" THEN [st EXCEPT !.err = r.err]
        ELSE PushResult([st EXCEPT !.query_res = <<r.res>>, !.res_origin = "term"])

NextIs(q, st, token) == (st.i + 1) < Len(q) /\ At(q, st.i + 1) = token

\* lines 255-281: one iteration of `while i < len(query)`
EvalStep(st, q, dict, f) ==
    LET token == At(q, st.i)
    IN  CASE token = "NOT" /\ NextIs(q, st, "AND") -> EvalAndNot(st)
          [] token = "NOT" /\ ~NextIs(q, st, "AND") /\ NextIs(q, st, "NOT") -> EvalNotNot(st)
          [] token = "NOT" /\ ~NextIs(q, st, "AND") /\ ~NextIs(q, st, "NOT") ->
                EvalNot(st, dict, f)
          [] token = "AND" -> EvalAnd(st)
          [] token = "OR" -> EvalOr(st)
          [] OTHER -> EvalTerm(st, token, dict, f)

\* lines 283-287: search_results = stack.pop(); return search_results.doc_Ids
EvalReturn(st) ==
    IF Len(st.stack) = 0 THEN [err |-> "IndexError", doc_Ids |-> <<>>, stack |-> st.stack]
    ELSE [err |-> "", doc_Ids |-> Top(st.stack).doc_Ids, stack |-> Pop(st.stack)]

RECURSIVE EvalLoop(_, _, _, _)
EvalLoop(st, q, dict, f) ==
    IF st.err # "" \/ ~(st.i < Len(q)) THEN st
    ELSE EvalLoop(EvalStep(st, q, dict, f), q, dict, f)

\* the result is [err, doc_Ids, stack]: the exception raised or the list returned
perform_search_query(q, dict, f) ==
    LET st == EvalLoop(EvalInit, q, dict, f)
    IN  IF st.err # "" THEN [err |-> st.err, doc_Ids |-> <<>>, stack |-> st.stack]
        ELSE EvalReturn(st)

----------------------------------------------------------------------------
(* Inputs *)

SeqsUpTo(S, n) == UNION {[1..k -> S] : k \in 0..n}

\* strictly ascending duplicate-free lists of document IDs
DocLists == {SetToSeq(S) : S \in SUBSET (1..MaxDoc)}

\* the document IDs of the directory indexed: one- and two-digit file names
DocIdPool == 9..(8 + MaxFiles)
FileNames == {Str(d) : d \in DocIdPool}
\* os.listdir: distinct names in any order
Listings == {l \in SeqsUpTo(FileNames, MaxFiles) :
                \A k1, k2 \in 1..Len(l) : k1 # k2 => l[k1] # l[k2]}

\* the word tokens of the documents
WordTokens == {"a", "A", "b"}
ParseTerms == {"a", "b", "c"}
EvalTerms == {"a", "b"}

\* the well-formed infix queries of exactly n tokens over the terms T
RECURSIVE WellFormed(_, _)
WellFormed(T, n) ==
    IF n <= 0 THEN {}
    ELSE IF n = 1 THEN {<<t>> : t \in T}
    ELSE {<<"NOT">> \o e : e \in WellFormed(T, n - 1)}
         \cup {(<<"(">> \o e) \o <<")">> : e \in WellFormed(T, n - 2)}
         \cup UNION {{(l \o <<op>>) \o r : l \in WellFormed(T, k),
                                           r \in WellFormed(T, n - 1 - k),
                                           op \in {"AND", "OR"}} : k \in 1..(n - 2)}

WellFormedUpTo(T, n) == UNION {WellFormed(T, k) : k \in 1..n}

\* query lines that are not well formed: empty, missing or extra operand,
\* unbalanced parentheses
Malformed ==
    {<<>>, <<"a", "b">>, <<"a", "AND">>, <<"AND", "a">>, <<"AND">>, <<"NOT">>,
     <<"NOT", "NOT">>, <<"a", "OR", "AND", "b">>, <<"(", "a">>, <<"a", ")">>,
     <<")">>, <<"(">>, <<"(", ")">>, <<"a", "NOT", "b">>}

\* well-formed queries with a token that case folding changes
Folded == {<<"A">>, <<"A", "AND", "b">>, <<"NOT", "B">>}

ParseQueries == WellFormedUpTo(ParseTerms, MaxQueryLen) \cup Malformed \cup Folded
EvalQueries == {q \in WellFormedUpTo(EvalTerms, MaxEvalLen) \cup Malformed \cup Folded :
                   shunting_yard(q).err = ""}
BatchQueries ==
    {<<"a">>, <<"a", "AND", "NOT", "b">>, <<"a", "OR", "b">>, <<"NOT", "a">>,
     <<>>, <<"a", "AND">>, <<"a", ")">>, <<"(", "a">>, <<"a", "b">>}

\* a collection: document k of 1..Len(corpus) holds the terms corpus[k]
TermTokens(S) == SelectSeq(<<"a", "b">>, LAMBDA t : t \in S)

RECURSIVE IndexCorpus(_, _, _)
IndexCorpus(pl, corpus, k) ==
    IF k > Len(corpus) THEN pl
    ELSE IndexCorpus(IndexOneDocument(pl, k, TermTokens(corpus[k])), corpus, k + 1)

\* create_postings_lists on the collection
create_postings_lists(corpus) == IndexCorpus(Put(EmptyDict, ALL_DOC_IDS, <<>>), corpus, 1)

\* the empty collection and every collection of MaxDoc documents
EvalCorpora == {<<>>} \cup [1..MaxDoc -> SUBSET EvalTerms]
\* documents {1,2,3,4}, a in {1,2}, b in {2,3}
ExampleCorpus == <<{"a"}, {"a", "b"}, {"b"}, {}>>
BatchCorpora == {<<>>, ExampleCorpus}

----------------------------------------------------------------------------
(* States of the parts a specification leaves alone *)

MergeIdle ==
    /\ in_1 = QueryResult(<<>>, 0) /\ in_2 = QueryResult(<<>>, 0)
    /\ merge_op = "none" /\ merge_res = QueryResult(<<>>, 0)

BuildIdle ==
    /\ listing = <<>> /\ files = <<>> /\ doc_idx = 0
    /\ postings_lists = EmptyDict /\ seen = <<>>
    /\ read_word = "" /\ read_res = [err |-> "", postings |-> <<>>]
    /\ ipc = "start"

StoreIdle == dictionary = <<>> /\ postings_fo = <<>>

ParseIdle ==
    /\ tokens = <<>> /\ tpos = 0 /\ output_queue = <<>> /\ operator_stack = <<>>
    /\ ppc = "scan"

EvalIdle ==
    /\ query = <<>> /\ qi = 0 /\ stack = <<>> /\ query_res = <<>>
    /\ origin = <<>> /\ res_origin = "" /\ epc = "scan" /\ search_results = <<>>

BatchIdle == lines = <<>> /\ line_num = 1 /\ results_fo = <<>> /\ bpc = "loop"

\* the state after build_index(corpus): the collection indexed and written
Built(corpus) ==
    LET pl == create_postings_lists(corpus)
        written == write_index_to_disk(pl)
    IN  /\ listing = [k \in 1..Len(corpus) |-> Str(k)]
        /\ files = [k \in 1..Len(corpus) |-> k]
        /\ doc_idx = Len(corpus)
        /\ postings_lists = pl
        /\ seen = corpus
        /\ read_word = "" /\ read_res = [err |-> "", postings |-> <<>>]
        /\ ipc = "built"
        /\ dictionary = written.dictionary
        /\ postings_fo = written.postings

----------------------------------------------------------------------------
(* SpecMerge: one call of a merge function on any two postings lists *)

InitMerge ==
    /\ \E l1 \in DocLists, l2 \in DocLists, s1 \in 0..MaxSkip, s2 \in 0..MaxSkip :
          in_1 = QueryResult(l1, s1) /\ in_2 = QueryResult(l2, s2)
    /\ merge_op = "none" /\ merge_res = QueryResult(<<>>, 0)
    /\ BuildIdle /\ StoreIdle /\ ParseIdle /\ EvalIdle /\ BatchIdle

CallAnd ==
    /\ merge_op = "none"
    /\ merge_op' = "and"
    /\ merge_res' = perform_and_query(in_1, in_2)
    /\ UNCHANGED <<in_1, in_2, buildVars, storeVars, parseVars, evalVars, batchVars>>

CallOr ==
    /\ merge_op = "none"
    /\ merge_op' = "or"
    /\ merge_res' = perform_or_query(in_1, in_2)
    /\ UNCHANGED <<in_1, in_2, buildVars, storeVars, parseVars, evalVars, batchVars>>

CallAndNot ==
    /\ merge_op = "none"
    /\ merge_op' = "and_not"
    /\ merge_res' = perform_and_not_query(in_1, in_2)
    /\ UNCHANGED <<in_1, in_2, buildVars, storeVars, parseVars, evalVars, batchVars>>

NextMerge == CallAnd \/ CallOr \/ CallAndNot

SpecMerge == InitMerge /\ [][NextMerge]_vars

----------------------------------------------------------------------------
(* SpecIndex: build_index on any directory, then reads of the store *)

InitIndex ==
    /\ listing \in Listings
    /\ files = <<>> /\ doc_idx = 0 /\ postings_lists = EmptyDict /\ seen = <<>>
    /\ read_word = "" /\ read_res = [err |-> "", postings |-> <<>>]
    /\ ipc = "start"
    /\ MergeIdle /\ StoreIdle /\ ParseIdle /\ EvalIdle /\ BatchIdle

\* index.py 34-40
StartIndexing ==
    /\ ipc = "start"
    /\ postings_lists' = Put(EmptyDict, ALL_DOC_IDS, <<>>)
    /\ files' = get_sorted_file_names(listing)
    /\ ipc' = "index"
    /\ UNCHANGED <<listing, doc_idx, seen, read_word, read_res,
                   mergeVars, storeVars, parseVars, evalVars, batchVars>>

\* index.py 42-65: the next document, with any word tokens
IndexDocument ==
    /\ ipc = "index"
    /\ doc_idx < Len(files)
    /\ \E word_tokens \in SeqsUpTo(WordTokens, MaxTokens) :
          LET docID == At(files, doc_idx)
          IN  /\ postings_lists' = IndexOneDocument(postings_lists, docID, word_tokens)
              /\ seen' = seen @@ (docID :> {Normalize(t) : t \in Range(word_tokens)})
    /\ doc_idx' = doc_idx + 1
    /\ UNCHANGED <<listing, files, read_word, read_res, ipc,
                   mergeVars, storeVars, parseVars, evalVars, batchVars>>

\* index.py 124-126: create_postings_lists returns and the index is written
WriteIndex ==
    /\ ipc = "index"
    /\ doc_idx = Len(files)
    /\ LET written == write_index_to_disk(postings_lists)
       IN  dictionary' = written.dictionary /\ postings_fo' = written.postings
    /\ ipc' = "built"
    /\ UNCHANGED <<listing, files, doc_idx, postings_lists, seen, read_word, read_res,
                   mergeVars, parseVars, evalVars, batchVars>>

\* search.py 65-78: the postings list of any word of the dictionary is read
ReadPostings ==
    /\ ipc = "built"
    /\ \E word \in DOMAIN dictionary :
          /\ read_word' = word
          /\ read_res' = read_postings_list_from_disk(word, dictionary, postings_fo)
    /\ UNCHANGED <<listing, files, doc_idx, postings_lists, seen, ipc,
                   mergeVars, storeVars, parseVars, evalVars, batchVars>>

NextIndex == StartIndexing \/ IndexDocument \/ WriteIndex \/ ReadPostings

SpecIndex == InitIndex /\ [][NextIndex]_vars

----------------------------------------------------------------------------
(* SpecParse: shunting_yard on any query, one token at a time *)

InitParse ==
    /\ tokens \in ParseQueries
    /\ tpos = 0 /\ output_queue = <<>> /\ operator_stack = <<>> /\ ppc = "scan"
    /\ MergeIdle /\ BuildIdle /\ StoreIdle /\ EvalIdle /\ BatchIdle

\* the token read is consumed; an exception ends the call
Consume(token) ==
    LET st == ShuntToken([output_queue |-> output_queue,
                          operator_stack |-> operator_stack, err |-> ""], token)
    IN  /\ output_queue' = st.output_queue
        /\ operator_stack' = st.operator_stack
        /\ ppc' = IF st.err # "" THEN st.err ELSE "scan"
        /\ tpos' = tpos + 1
        /\ UNCHANGED <<tokens, mergeVars, buildVars, storeVars, evalVars, batchVars>>

Reading(token) == ppc = "scan" /\ tpos < Len(tokens) /\ At(tokens, tpos) = token

ReadLParen == Reading("(") /\ Consume("(")
ReadRParen == Reading(")") /\ Consume(")")
ReadNot == Reading("NOT") /\ Consume("NOT")
ReadAnd == Reading("AND") /\ Consume("AND")
ReadOr == Reading("OR") /\ Consume("OR")

ReadTerm ==
    /\ ppc = "scan" /\ tpos < Len(tokens)
    /\ At(tokens, tpos) \notin {"(", ")", "NOT", "AND", "OR"}
    /\ Consume(At(tokens, tpos))

\* search.py 59-62
FlushOperators ==
    /\ ppc = "scan" /\ tpos = Len(tokens)
    /\ LET st == ShuntFlush([output_queue |-> output_queue,
                             operator_stack |-> operator_stack, err |-> ""])
       IN  output_queue' = st.output_queue /\ operator_stack' = st.operator_stack
    /\ ppc' = "done"
    /\ UNCHANGED <<tokens, tpos, mergeVars, buildVars, storeVars, evalVars, batchVars>>

NextParse ==
    ReadLParen \/ ReadRParen \/ ReadNot \/ ReadAnd \/ ReadOr \/ ReadTerm \/ FlushOperators

SpecParse == InitParse /\ [][NextParse]_vars

----------------------------------------------------------------------------
(* SpecEval: perform_search_query on the postfix form of any query, over   *)
(* the index of any collection, one iteration of the loop at a time        *)

InitEval ==
    /\ \E corpus \in EvalCorpora : Built(corpus)
    /\ tokens \in EvalQueries
    /\ tpos = Len(tokens)
    /\ output_queue = shunting_yard(tokens).output_queue
    /\ operator_stack = <<>> /\ ppc = "done"
    /\ query = output_queue
    /\ qi = 0 /\ stack = <<>> /\ query_res = <<>> /\ origin = <<>> /\ res_origin = ""
    /\ epc = "scan" /\ search_results = <<>>
    /\ MergeIdle /\ BatchIdle

EvalState == [i |-> qi, stack |-> stack, query_res |-> query_res,
              origin |-> origin, res_origin |-> res_origin, err |-> ""]

\* the locals after the iteration; an exception ends the call
Iterate(st) ==
    /\ qi' = st.i /\ stack' = st.stack /\ query_res' = st.query_res
    /\ origin' = st.origin /\ res_origin' = st.res_origin
    /\ epc' = IF st.err # "" THEN st.err ELSE "scan"
    /\ UNCHANGED <<query, search_results,
                   mergeVars, buildVars, storeVars, parseVars, batchVars>>

Scanning == epc = "scan" /\ qi < Len(query)
Token == At(query, qi)
Lookahead(token) == NextIs(query, EvalState, token)

StepAndNot == Scanning /\ Token = "NOT" /\ Lookahead("AND") /\ Iterate(EvalAndNot(EvalState))

StepNotNot == Scanning /\ Token = "NOT" /\ Lookahead("NOT") /\ Iterate(EvalNotNot(EvalState))

StepNot ==
    /\ Scanning /\ Token = "NOT" /\ ~Lookahead("AND") /\ ~Lookahead("NOT")
    /\ Iterate(EvalNot(EvalState, dictionary, postings_fo))

StepAnd == Scanning /\ Token = "AND" /\ Iterate(EvalAnd(EvalState))

StepOr == Scanning /\ Token = "OR" /\ Iterate(EvalOr(EvalState))

StepTerm ==
    /\ Scanning /\ Token \notin {"NOT", "AND", "OR"}
    /\ Iterate(EvalTerm(EvalState, Token, dictionary, postings_fo))

\* search.py 283-287
Return ==
    /\ epc = "scan" /\ ~(qi < Len(query))
    /\ LET r == EvalReturn(EvalState)
       IN  /\ epc' = IF r.err # "" THEN r.err ELSE "done"
           /\ search_results' = r.doc_Ids
           /\ stack' = r.stack
           /\ origin' = SubSeq(origin, 1, Len(r.stack))
    /\ UNCHANGED <<query, qi, query_res, res_origin,
                   mergeVars, buildVars, storeVars, parseVars, batchVars>>

NextEval == StepAndNot \/ StepNotNot \/ StepNot \/ StepAnd \/ StepOr \/ StepTerm \/ Return

SpecEval == InitEval /\ [][NextEval]_vars

----------------------------------------------------------------------------
(* SpecBatch: run_search over a query file, one line at a time *)

InitBatch ==
    /\ \E corpus \in BatchCorpora : Built(corpus)
    /\ lines \in SeqsUpTo(BatchQueries, MaxLines)
    /\ line_num = 1 /\ results_fo = <<>> /\ bpc = "loop"
    /\ MergeIdle /\ ParseIdle /\ EvalIdle

\* linecache.getline(queries_file, line_num) != ''
HasLine == line_num <= Len(lines)

\* lines 308-309 for the current line: [err, doc_Ids]
SearchOf(line) ==
    LET parsed == shunting_yard(line)
    IN  IF parsed.err # "" THEN [err |-> parsed.err, doc_Ids |-> <<>>]
        ELSE LET r == perform_search_query(parsed.output_queue, dictionary, postings_fo)
             IN  [err |-> r.err, doc_Ids |-> r.doc_Ids]

\* lines 308-316: the line is parsed and evaluated and its result written
SearchLine ==
    /\ bpc = "loop" /\ HasLine
    /\ SearchOf(lines[line_num]).err = ""
    /\ results_fo' = Append(results_fo, SearchOf(lines[line_num]).doc_Ids)
    /\ line_num' = line_num + 1
    /\ UNCHANGED <<lines, bpc, mergeVars, buildVars, storeVars, parseVars, evalVars>>

\* lines 308-309 raise: nothing catches the exception and run_search ends
SearchLineRaises ==
    /\ bpc = "loop" /\ HasLine
    /\ SearchOf(lines[line_num]).err # ""
    /\ bpc' = SearchOf(lines[line_num]).err
    /\ UNCHANGED <<lines, line_num, results_fo,
                   mergeVars, buildVars, storeVars, parseVars, evalVars>>

\* lines 318-319: the end of the query file
CloseFiles ==
    /\ bpc = "loop" /\ ~HasLine
    /\ bpc' = "closed"
    /\ UNCHANGED <<lines, line_num, results_fo,
                   mergeVars, buildVars, storeVars, parseVars, evalVars>>

NextBatch == SearchLine \/ SearchLineRaises \/ CloseFiles

SpecBatch == InitBatch /\ [][NextBatch]_vars

----------------------------------------------------------------------------
(* Reference semantics used by the properties *)

\* a Boolean expression over the terms denotes the set of the valuations
\* (sets of true terms) that satisfy it
Valuations == SUBSET ParseTerms
DenTerm(t) == {v \in Valuations : t \in v}
Reserved == {"(", ")", "NOT", "AND", "OR"}
Fail == [ok |-> FALSE, val |-> {}, pos |-> 0]

\* the infix query read by recursive descent with precedence NOT > AND > OR:
\*   or ::= and (OR and)*   and ::= not (AND not)*   not ::= NOT not | atom
\*   atom ::= term | ( or )
RECURSIVE DescOr(_, _)
RECURSIVE DescOrRest(_, _)
RECURSIVE DescAnd(_, _)
RECURSIVE DescAndRest(_, _)
RECURSIVE DescNot(_, _)

DescAtom(toks, p) ==
    IF p > Len(toks) THEN Fail
    ELSE IF toks[p] = "("
    THEN LET r == DescOr(toks, p + 1)
         IN  IF r.ok /\ r.pos <= Len(toks) /\ toks[r.pos] = ")"
             THEN [r EXCEPT !.pos = @ + 1] ELSE Fail
    ELSE IF toks[p] \in Reserved THEN Fail
    ELSE [ok |-> TRUE, val |-> DenTerm(Normalize(toks[p])), pos |-> p + 1]

DescNot(toks, p) ==
    IF p <= Len(toks) /\ toks[p] = "NOT"
    THEN LET r == DescNot(toks, p + 1)
         IN  IF r.ok THEN [r EXCEPT !.val = Valuations \ @] ELSE Fail
    ELSE DescAtom(toks, p)

DescAndRest(toks, l) ==
    IF l.ok /\ l.pos <= Len(toks) /\ toks[l.pos] = "AND"
    THEN LET r == DescNot(toks, l.pos + 1)
         IN  IF r.ok THEN DescAndRest(toks, [r EXCEPT !.val = l.val \cap @]) ELSE Fail
    ELSE l

DescAnd(toks, p) == DescAndRest(toks, DescNot(toks, p))

DescOrRest(toks, l) ==
    IF l.ok /\ l.pos <= Len(toks) /\ toks[l.pos] = "OR"
    THEN LET r == DescAnd(toks, l.pos + 1)
         IN  IF r.ok THEN DescOrRest(toks, [r EXCEPT !.val = l.val \cup @]) ELSE Fail
    ELSE l

DescOr(toks, p) == DescOrRest(toks, DescAnd(toks, p))

IsWellFormed(toks) == LET r == DescOr(toks, 1) IN r.ok /\ r.pos = Len(toks) + 1
InfixDen(toks) == DescOr(toks, 1).val

\* ordinary postfix: a term is pushed, NOT takes one operand, AND and OR take two
RECURSIVE PostfixStack(_, _)
PostfixStack(post, stk) ==
    IF Len(post) = 0 THEN stk
    ELSE LET t == Head(post)
         IN  IF t = "NOT"
             THEN IF Len(stk) < 1 THEN <<>>
                  ELSE PostfixStack(Tail(post), Append(Pop(stk), Valuations \ Top(stk)))
             ELSE IF t \in {"AND", "OR"}
             THEN IF Len(stk) < 2 THEN <<>>
                  ELSE PostfixStack(Tail(post),
                           Append(Pop(Pop(stk)),
                                  IF t = "AND" THEN Top(Pop(stk)) \cap Top(stk)
                                               ELSE Top(Pop(stk)) \cup Top(stk)))
             ELSE IF t \in Reserved THEN <<>>
             ELSE PostfixStack(Tail(post), Append(stk, DenTerm(t)))

\* <<the set denoted>>, or <<>> when the sequence is no postfix expression
PostfixDen(post) ==
    LET stk == PostfixStack(post, <<>>) IN IF Len(stk) = 1 THEN <<stk[1]>> ELSE <<>>

\* floor(sqrt(n)) = s
IsFloorSqrt(s, n) == s >= 0 /\ s * s <= n /\ n < (s + 1) * (s + 1)

\* the query with every NOT NOT pair removed
RECURSIVE StripNotNot(_)
StripNotNot(toks) ==
    IF Len(toks) < 2 THEN toks
    ELSE IF toks[1] = "NOT" /\ toks[2] = "NOT" THEN StripNotNot(Tail(Tail(toks)))
    ELSE <<Head(toks)>> \o StripNotNot(Tail(toks))

HasNotNot(toks) == \E k \in 1..(Len(toks) - 1) : toks[k] = "NOT" /\ toks[k + 1] = "NOT"

\* the operators of the operator stack, by precedence
Prec(op) == CASE op = "NOT" -> 3 [] op = "AND" -> 2 [] op = "OR" -> 1 [] OTHER -> 0

----------------------------------------------------------------------------
(* Properties *)

\* C1: for strictly ascending duplicate-free lists and any non-negative skip
\* strides, perform_and_query, perform_or_query and perform_and_not_query return
\* the ascending sequence of the intersection, union and difference, which is
\* also what the same merge returns when no skip pointer is usable (stride 0).
C1_MergesAreSetOperations ==
    merge_op # "none" =>
        LET S1 == Range(in_1.doc_Ids)
            S2 == Range(in_2.doc_Ids)
            l1 == QueryResult(in_1.doc_Ids, 0)
            l2 == QueryResult(in_2.doc_Ids, 0)
        IN  CASE merge_op = "and" ->
                    /\ merge_res.doc_Ids = SetToSeq(S1 \cap S2)
                    /\ merge_res.doc_Ids = perform_and_query(l1, l2).doc_Ids
              [] merge_op = "or" ->
                    /\ merge_res.doc_Ids = SetToSeq(S1 \cup S2)
                    /\ merge_res.doc_Ids = perform_or_query(l1, l2).doc_Ids
              [] merge_op = "and_not" ->
                    /\ merge_res.doc_Ids = SetToSeq(S1 \ S2)
                    /\ merge_res.doc_Ids = perform_and_not_query(l1, l2).doc_Ids

\* C1 witness: a set difference in which the skip pointer of list_2 is taken
C1_Witness ==
    /\ merge_op = "and_not"
    /\ in_1.doc_Ids = <<3, 4>>
    /\ in_2 = QueryResult(<<1, 2, 3>>, 2)
    /\ Advance(in_2.doc_Ids, in_2.skip_len, 0, 3) = 2
    /\ merge_res.doc_Ids = <<4>>

\* C8: after each document processed, every term's postings list is strictly
\* ascending and holds exactly the IDs of the documents processed so far that
\* yielded the term; a term no document yielded has no list.
C8_PostingsAreTheDocumentsOfTheTerm ==
    ipc \in {"index", "built"} =>
        /\ postings_lists.lists[ALL_DOC_IDS] = SetToSeq(DOMAIN seen)
        /\ \A term \in {Normalize(t) : t \in WordTokens} :
              LET docs == {d \in DOMAIN seen : term \in seen[d]}
              IN  IF docs = {} THEN ~Has(postings_lists, term)
                  ELSE /\ Has(postings_lists, term)
                       /\ StrictlyAscending(postings_lists.lists[term])
                       /\ Len(postings_lists.lists[term]) = Cardinality(docs)
                       /\ postings_lists.lists[term] = SetToSeq(docs)

\* C8 witness: a directory listed out of order, a term in two of three documents
C8_Witness ==
    /\ ipc = "index" /\ doc_idx = 3
    /\ listing = <<Str(11), Str(9), Str(10)>>
    /\ Has(postings_lists, "a") /\ postings_lists.lists["a"] = <<9, 11>>
    /\ ~Has(postings_lists, "b")

\* C5: the list read back for a word through its dictionary entry is the list
\* that was written for it, whatever its length and position in the file.
C5_RoundTrip ==
    read_word # "" =>
        /\ read_res.err = ""
        /\ read_res.postings = postings_lists.lists[read_word]

\* C5 restricted to the lists that are not empty (what the code does achieve)
C5_RoundTripNonEmpty ==
    (read_word # "" /\ Len(postings_lists.lists[read_word]) > 0) =>
        /\ read_res.err = ""
        /\ read_res.postings = postings_lists.lists[read_word]

\* C2: for every well-formed infix query the postfix sequence of shunting_yard,
\* read as ordinary postfix, denotes the same set expression as the query under
\* precedence NOT > AND > OR (and shunting_yard raises nothing on it);
\* "a AND b OR c" denotes (a AND b) OR c and "NOT a AND b" yields a NOT b AND.
C2_PostfixDenotesTheQuery ==
    /\ IsWellFormed(tokens) => ppc \in {"scan", "done"}
    /\ (ppc = "done" /\ IsWellFormed(tokens)) =>
        /\ PostfixDen(output_queue) = <<InfixDen(tokens)>>
        /\ tokens = <<"a", "AND", "b", "OR", "c">> =>
              PostfixDen(output_queue) =
                  <<(DenTerm("a") \cap DenTerm("b")) \cup DenTerm("c")>>
        /\ tokens = <<"NOT", "a", "AND", "b">> =>
              output_queue = <<"a", "NOT", "b", "AND">>

\* C2 witness: a parenthesised query whose parentheses override the precedence
C2_Witness ==
    /\ ppc = "done"
    /\ tokens = <<"a", "AND", "(", "b", "OR", "c", ")">>
    /\ output_queue = <<"a", "b", "c", "OR", "AND">>

\* C10 as stated: the operator stack never holds AND or OR directly on top of
\* an operator of equal or higher precedence, and "a AND b AND c" yields
\* a b AND c AND.
C10_EqualOrHigherPopped ==
    /\ \A k \in 1..(Len(operator_stack) - 1) :
          operator_stack[k + 1] \in {"AND", "OR"} =>
              Prec(operator_stack[k]) < Prec(operator_stack[k + 1])
    /\ (ppc = "done" /\ tokens = <<"a", "AND", "b", "AND", "c">>) =>
          output_queue = <<"a", "b", "AND", "c", "AND">>

\* C10 amended: AND and OR move to the output only the operators of strictly
\* higher precedence: the operator stack never holds AND or OR directly on top
\* of an operator of higher precedence (no AND on NOT, no OR on NOT or AND),
\* and "a AND b AND c" yields a b c AND AND.
C10_StrictlyHigherPopped ==
    /\ \A k \in 1..(Len(operator_stack) - 1) :
          operator_stack[k + 1] \in {"AND", "OR"} =>
              Prec(operator_stack[k]) <= Prec(operator_stack[k + 1])
    /\ (ppc = "done" /\ tokens = <<"a", "AND", "b", "AND", "c">>) =>
          output_queue = <<"a", "b", "c", "AND", "AND">>

\* C10 witness: the second AND of "a AND b AND c" is pushed on the first
C10_Witness ==
    /\ tokens = <<"a", "AND", "b", "AND", "c">>
    /\ tpos = 4
    /\ operator_stack = <<"AND", "AND">>
    /\ output_queue = <<"a", "b">>

\* the outcome of run_search's lines 308-309 on a query, as [err, doc_Ids]
Outcome == [err |-> IF epc = "done" THEN "" ELSE epc, doc_Ids |-> search_results]

\* C3: a well-formed query in which an operand x is written NOT NOT x returns
\* what the query with x alone returns.
C3_DoubleNegationIsNoOp ==
    (epc # "scan" /\ IsWellFormed(tokens) /\ HasNotNot(tokens)) =>
        Outcome = SearchOf(StripNotNot(tokens))

\* C4: a NOT followed by AND, with two operands on the stack, is one step that
\* consumes both tokens, pops R then L and pushes L \ R, which is L AND (ALL \ R)
\* (and what perform_and_query of L and perform_not_query of R return, when the
\* all-documents list loads); with documents {1,2,3,4}, a in {1,2}, b in {2,3},
\* "a AND NOT b" returns [1].
C4_FusedAndNot ==
    /\ [][(Scanning /\ Token = "NOT" /\ Lookahead("AND") /\ Len(stack) >= 2) =>
            LET R == Top(stack)
                L == Top(Pop(stack))
                ALL == Range(postings_lists.lists[ALL_DOC_IDS])
                unfused == perform_not_query(R, dictionary, postings_fo)
            IN  /\ epc' = "scan"
                /\ qi' = qi + 2
                /\ Pop(stack') = Pop(Pop(stack))
                /\ Top(stack').doc_Ids = SetToSeq(Range(L.doc_Ids) \ Range(R.doc_Ids))
                /\ Top(stack').doc_Ids =
                       SetToSeq(Range(L.doc_Ids) \cap (ALL \ Range(R.doc_Ids)))
                /\ unfused.err = "" =>
                       Top(stack').doc_Ids = perform_and_query(L, unfused.res).doc_Ids
         ]_vars
    /\ []((epc = "done" /\ seen = ExampleCorpus
            /\ tokens = <<"a", "AND", "NOT", "b">>) => search_results = <<1>>)

\* C4 witness: "a AND NOT b" evaluated over the example collection
C4_Witness ==
    /\ epc = "done"
    /\ seen = ExampleCorpus
    /\ tokens = <<"a", "AND", "NOT", "b">>
    /\ query = <<"a", "b", "NOT", "AND">>
    /\ search_results = <<1>>

\* C6: perform_search_query returns a list only when exactly one QueryResult
\* remained on the stack at the end of the scan (none is left once it is
\* popped); here for the queries without NOT NOT.
C6_ReturnsOnlyWithOneResult ==
    (epc = "done" /\ ~HasNotNot(tokens)) => Len(stack) = 0

\* C9 as stated: every QueryResult of an evaluation carries
\* skip_len = floor(sqrt(len(doc_Ids))), and so does every dictionary entry.
C9_StrideIsFloorSqrt ==
    /\ \A w \in DOMAIN dictionary :
          /\ dictionary[w][1] = Len(postings_lists.lists[w])
          /\ IsFloorSqrt(dictionary[w][4], dictionary[w][1])
    /\ \A k \in 1..Len(stack) :
          IsFloorSqrt(stack[k].skip_len, Len(stack[k].doc_Ids))
    /\ \A k \in 1..Len(query_res) :
          IsFloorSqrt(query_res[k].skip_len, Len(query_res[k].doc_Ids))

StrideAsBuilt(res, tag) ==
    IF tag = "or_short" THEN res.skip_len = 0
    ELSE IsFloorSqrt(res.skip_len, Len(res.doc_Ids))

\* C9 amended: every dictionary entry and every QueryResult of an evaluation
\* carries skip_len = floor(sqrt(len(doc_Ids))), except the result of
\* perform_or_query with an empty operand, which carries skip_len = 0.
C9_StrideIsFloorSqrtButShortCircuitOr ==
    /\ \A w \in DOMAIN dictionary :
          /\ dictionary[w][1] = Len(postings_lists.lists[w])
          /\ IsFloorSqrt(dictionary[w][4], dictionary[w][1])
    /\ Len(origin) = Len(stack)
    /\ \A k \in 1..Len(stack) : StrideAsBuilt(stack[k], origin[k])
    /\ \A k \in 1..Len(query_res) : StrideAsBuilt(query_res[k], res_origin)

\* C9 witness: a stored list of four documents with stride 2 is on the stack
\* with the result of an OR of an empty and a non-empty list
C9_Witness ==
    /\ Len(stack) = 2
    /\ origin = <<"term", "or_short">>
    /\ Len(stack[1].doc_Ids) = 4 /\ stack[1].skip_len = 2
    /\ Len(stack[2].doc_Ids) > 0 /\ stack[2].skip_len = 0

\* C7: when run_search has ended, the result file holds one line per line of
\* the query file.
C7_OneResultLinePerQueryLine ==
    bpc # "loop" => Len(results_fo) = Len(lines)

====
